---- MODULE Spec2Model ----
(***************************************************************************)
(* A model of rynzland's toolchain pool: the links directory               *)
(* (rynzland_home/toolchains), the pool directory (rustup_home/toolchains),*)
(* the Add, Rm and comp-add/comp-rm subcommands and the garbage collector. *)
(* Every file-system call of the subcommands is one step of a process, so  *)
(* that failures, crashes and interleavings fall between the calls.        *)
(***************************************************************************)
EXTENDS Integers, Sequences, FiniteSets, TLC

(***************************************************************************)
(* Bounds.                                                                 *)
(***************************************************************************)
\* The number of subcommand invocations in a behaviour.
MaxOps == 3

\* The length of a list of component names that an identity is computed for.
MaxComps == 2

\* The processes (invocations of the binary) that may run at the same time.
Procs == {1, 2}

(***************************************************************************)
(* Names.  A toolchain or component name is <<base, suffixed>>: suffixed   *)
(* says whether the name ends in "-<BUILD_TARGET>".                        *)
(***************************************************************************)
NoName == << >>
NoId == << >>
Absent == << >>

QualifyWithTarget(name) == IF name[2] THEN name ELSE <<name[1], TRUE>>

\* The toolchain names given on the command line.
Toolchains == {<<"1.81", FALSE>>, <<"1.81", TRUE>>, <<"dev", FALSE>>}

\* The --source options given on the command line (NoName: none given).
Sources == {NoName, <<"1.81.0", FALSE>>, <<"1.92.0", FALSE>>}

\* The component lists given to comp-add and comp-rm.
CompArgs ==
    { << >>,
      << <<"cargo", FALSE>> >>,
      << <<"cargo", TRUE>> >>,
      << <<"clippy", FALSE>> >>,
      << <<"rust-src", FALSE>> >> }

LinkNames == {QualifyWithTarget(t) : t \in Toolchains}
SrcNames == {QualifyWithTarget(s) : s \in (Toolchains \cup Sources) \ {NoName}}

\* pkg.rust.version of the manifest a channel's URL serves; "" when the
\* download or the parse fails.
ManifestVersion(chan) ==
    CASE chan = "1.81" -> "1.81.0"
      [] chan = "1.81.0" -> "1.81.0"
      [] chan = "1.92.0" -> "1.92.0"
      [] OTHER -> ""

DefaultComponents ==
    {QualifyWithTarget(<<c, FALSE>>) : c \in {"rustc", "cargo", "rust-std"}}

\* resolve_channel(chan, &[]): the toolchain <<rust_ver, components>>.
ResolveChannel(chan) == <<ManifestVersion(chan), DefaultComponents>>

\* IdentifiableToolchain::id: the hashes are taken to be collision free, so
\* the identity is the pair it is computed from.
Id(tc) == <<tc[1], tc[2]>>

Versions == {"1.81.0", "1.92.0"}
ComponentSets ==
    {(DefaultComponents \ r) \cup a :
        r \in SUBSET {<<"cargo", TRUE>>},
        a \in SUBSET {<<"clippy", TRUE>>, <<"rust-src", TRUE>>, <<"rust-src", FALSE>>}}
PoolIds == {Id(<<v, cs>>) : v \in Versions, cs \in ComponentSets}

\* The content of a toolchain directory: <<rust_ver, components, state>>,
\* state "full" or "partial" (being written, or left half written).
Full(tc) == <<tc[1], tc[2], "full">>
Partial == <<"", {}, "partial">>
IsFull(dir) == dir /= Absent /\ dir[3] = "full"

(***************************************************************************)
(* State.                                                                  *)
(***************************************************************************)
VARIABLES
    link,     \* links directory: link name -> identity it targets, or NoId
    marker,   \* links directory: link name -> target of <name>.tmp, or NoId
    pool,     \* pool directory: identity -> content of that directory
    srcdir,   \* pool directory: source name -> content of that directory
    tmpdir,   \* pool directory: identity -> content of <identity>.tmp
    hack,     \* pool directory: target of the link stable-<host>, or NoId
    lock,     \* holder of pool_gc.lock, 0 when free
    proc,     \* the processes
    last,     \* the component edit that returned Ok last, if no other
              \* subcommand has returned since
    nops,     \* subcommands started
    calc      \* the input and the result of a pure function being computed

vars == <<link, marker, pool, srcdir, tmpdir, hack, lock, proc, last, nops, calc>>
fs == <<link, marker, pool, srcdir, tmpdir, hack>>

NoCalc == << >>

NoLast ==
    [valid |-> FALSE, link |-> NoName, add |-> FALSE, delta |-> {},
     from |-> NoId, to |-> NoId, undo |-> FALSE, origin |-> NoId]

Idle ==
    [pc |-> "idle", op |-> "none", res |-> "none", at |-> "none",
     link |-> NoName, src |-> NoName, id |-> NoId, und |-> NoId, pre |-> NoId,
     add |-> FALSE, delta |-> {}, todo |-> {}, installed |-> FALSE,
     swept |-> {}, cand |-> << >>, args |-> << >>]

Init ==
    /\ link = [n \in LinkNames |-> NoId]
    /\ marker = [n \in LinkNames |-> NoId]
    /\ pool = [i \in PoolIds |-> Absent]
    /\ srcdir = [s \in SrcNames |-> Absent]
    /\ tmpdir = [i \in PoolIds |-> Absent]
    /\ hack = NoId
    /\ lock = 0
    /\ proc = [p \in Procs |-> Idle]
    /\ last = NoLast
    /\ nops = 0
    /\ calc = NoCalc

Quiet(p) == proc[p].pc \in {"idle", "done"}

\* The process moves on to pc, with the fields of r changed.
Goto(p, pc, r) ==
    /\ proc' = [proc EXCEPT ![p] = [r EXCEPT !.pc = pc]]
    /\ last' = last

\* What is remembered of a subcommand that returns: a component edit that
\* returned Ok, and whether it undoes the edit that returned just before it
\* (same link, same components, the other direction, and that edit changed
\* the component set by just these components).
Remember(r, res) ==
    IF r.op = "comp" /\ res = "ok" /\ r.delta /= {}
    THEN [valid |-> TRUE, link |-> r.link, add |-> r.add, delta |-> r.delta,
          from |-> r.und, to |-> r.id,
          undo |-> /\ last.valid
                   /\ last.link = r.link
                   /\ last.add /= r.add
                   /\ last.delta = r.delta
                   /\ last.from /= NoId
                   /\ last.to[1] = last.from[1]
                   /\ (last.from[2] \ last.to[2]) \cup (last.to[2] \ last.from[2])
                          = r.delta,
          origin |-> last.from]
    ELSE NoLast

\* The subcommand returns: res is "ok", "err" or "crash"; at is the step it
\* ended at.
Finish(p, r, at, res) ==
    /\ proc' = [proc EXCEPT ![p] =
                   [r EXCEPT !.pc = "done", !.res = res, !.at = at]]
    /\ last' = Remember(r, res)

Return(p, res) == Finish(p, proc[p], proc[p].pc, res)

\* The record of a subcommand that begins.
Begin(op, l) == [Idle EXCEPT !.op = op, !.link = l, !.pre = link[l]]

(***************************************************************************)
(* The garbage collector, Ctx::gc.  A subcommand enters it at pc           *)
(* "gc_lock" with its candidates in todo.                                  *)
(***************************************************************************)
\* An Option<HashSet>: None, or Some(set).
None == << >>
Some(set) == <<set>>

\* Mutant of GcEnter: an empty set of candidates takes the lock like any
\* other.
GcEnterNoFastPath(p, r, candidates) ==
    Goto(p, "gc_lock", [r EXCEPT !.cand = candidates])

\* candidates is Some and the set is empty: Ok without taking the lock.
GcEnter(p, r, candidates) ==
    IF candidates /= None /\ candidates[1] = {}
    THEN Finish(p, [r EXCEPT !.cand = candidates], "gc_empty", "ok")
    ELSE Goto(p, "gc_lock", [r EXCEPT !.cand = candidates])

\* The candidates given to a call of Ctx::gc from outside the subcommands:
\* none, an empty set, a toolchain a link targets, one no link targets.
GcArgs ==
    {None, Some({}),
     Some({Id(ResolveChannel("1.81.0"))}), Some({Id(ResolveChannel("1.92.0"))})}

\* Ctx::gc is called with the candidates.
GcStart(p, candidates) ==
    /\ Quiet(p)
    /\ nops < MaxOps
    /\ nops' = nops + 1
    /\ UNCHANGED calc
    /\ GcEnter(p, [Idle EXCEPT !.op = "gc"], candidates)
    /\ UNCHANGED <<fs, lock>>

\* Mutant of GcLock: the lock is taken whether it is held or not.
GcLockUnchecked(p) ==
    /\ proc[p].pc = "gc_lock"
    /\ lock' = p
    /\ Goto(p, "gc_scan", proc[p])
    /\ UNCHANGED <<fs, nops, calc>>

\* Marker::acquire_to_hold_resource succeeds.
GcLock(p) ==
    /\ proc[p].pc = "gc_lock"
    /\ lock = 0
    /\ lock' = p
    /\ Goto(p, "gc_scan", proc[p])
    /\ UNCHANGED <<fs, nops, calc>>

\* Mutant of GcLockFail: the acquire waits for the lock without a limit.
GcLockWaits(p) ==
    /\ proc[p].pc = "gc_lock"
    /\ lock /= 0
    /\ UNCHANGED vars

\* The lock is held until the backoff runs out: gc returns the error.
GcLockFail(p) ==
    /\ proc[p].pc = "gc_lock"
    /\ lock /= 0
    /\ Return(p, "err")
    /\ UNCHANGED <<fs, lock, nops, calc>>

\* Mutant of Referenced: only the in-flight markers are counted.
ReferencedByMarkers ==
    {marker[n] : n \in {m \in LinkNames : marker[m] /= NoId}}

\* The file names that the entries of the links directory target: every
\* entry whose link target can be read, the in-flight markers included.
Referenced ==
    {link[n] : n \in {m \in LinkNames : link[m] /= NoId}}
        \cup {marker[n] : n \in {m \in LinkNames : marker[m] /= NoId}}

\* Mutants of Unreferenced: the referenced candidates are not taken out;
\* the operands of the difference are swapped.
UnreferencedKeepsAll(candidates, referenced) == candidates
UnreferencedSwapped(candidates, referenced) == referenced \ candidates

\* The candidates gc goes on to uninstall.
Unreferenced(candidates, referenced) == candidates \ referenced

\* Mutant of Doomed: a toolchain whose directory is not in the pool is
\* left out.
DoomedInPool(candidates, referenced) ==
    {tc \in (IF candidates = None
             THEN referenced
             ELSE Unreferenced(candidates[1], referenced)) : pool[tc] /= Absent}

\* The toolchains gc goes on to uninstall: with no candidates given, the
\* referenced ones.
Doomed(candidates, referenced) ==
    IF candidates = None
    THEN referenced
    ELSE Unreferenced(candidates[1], referenced)

\* read_dir of the links directory; what the loops will uninstall.
GcScan(p) ==
    /\ proc[p].pc = "gc_scan"
    /\ Goto(p, "gc_rm",
            [proc[p] EXCEPT !.todo = Doomed(proc[p].cand, Referenced)])
    /\ UNCHANGED <<fs, lock, nops, calc>>

\* read_dir()? or entry? fails: gc returns the error, dropping the lock.
GcScanFail(p) ==
    /\ proc[p].pc = "gc_scan"
    /\ lock' = 0
    /\ Return(p, "err")
    /\ UNCHANGED <<fs, nops, calc>>

\* rustup uninstall tc, for the next tc of the loop: the directory is
\* removed (nothing happens when it is not there).
GcUninstall(p) ==
    /\ proc[p].pc = "gc_rm"
    /\ \E tc \in proc[p].todo :
          /\ pool' = [pool EXCEPT ![tc] = Absent]
          /\ Goto(p, "gc_rm",
                  [proc[p] EXCEPT !.todo = @ \ {tc}, !.swept = @ \cup {tc}])
    /\ UNCHANGED <<link, marker, srcdir, tmpdir, hack, lock, nops, calc>>

\* Mutant of GcUninstallFail: the error is put aside and the loop goes on
\* with the next toolchain.
GcUninstallFailContinues(p) ==
    /\ proc[p].pc = "gc_rm"
    /\ \E tc \in proc[p].todo :
          Goto(p, "gc_rm", [proc[p] EXCEPT !.todo = @ \ {tc}])
    /\ UNCHANGED <<fs, lock, nops, calc>>

\* Mutant of GcUninstallFail: the error path does not drop the lock.
GcUninstallFailKeepsLock(p) ==
    /\ proc[p].pc = "gc_rm"
    /\ proc[p].todo /= {}
    /\ Return(p, "err")
    /\ UNCHANGED <<fs, lock, nops, calc>>

\* rustup uninstall exits non-zero: gc returns the error, dropping the lock.
GcUninstallFail(p) ==
    /\ proc[p].pc = "gc_rm"
    /\ proc[p].todo /= {}
    /\ lock' = 0
    /\ Return(p, "err")
    /\ UNCHANGED <<fs, nops, calc>>

\* The loop is over: gc returns Ok, dropping the lock.
GcDone(p) ==
    /\ proc[p].pc = "gc_rm"
    /\ proc[p].todo = {}
    /\ lock' = 0
    /\ Return(p, "ok")
    /\ UNCHANGED <<fs, nops, calc>>

(***************************************************************************)
(* AddSubcmd::run.                                                         *)
(***************************************************************************)
\* Mutant of AddStart: an in-flight marker that is in the way is replaced.
AddStartReplacesMarker(p, toolchain, source) ==
    LET tc == QualifyWithTarget(toolchain)
        src == IF source = NoName THEN tc ELSE QualifyWithTarget(source)
        chan == src[1]
        r == [Begin("add", tc) EXCEPT !.src = src]
    IN  /\ Quiet(p)
        /\ nops < MaxOps
        /\ nops' = nops + 1
        /\ UNCHANGED calc
        /\ UNCHANGED <<link, pool, srcdir, tmpdir, hack, lock>>
        /\ IF ManifestVersion(chan) = ""
           THEN /\ Finish(p, r, "add_resolve", "err")
                /\ UNCHANGED marker
           ELSE /\ marker' = [marker EXCEPT ![tc] = Id(ResolveChannel(chan))]
                /\ Goto(p, "add_read", [r EXCEPT !.id = Id(ResolveChannel(chan))])

\* The names and the identity are computed and the in-flight marker is
\* created.
AddStart(p, toolchain, source) ==
    LET tc == QualifyWithTarget(toolchain)
        src == IF source = NoName THEN tc ELSE QualifyWithTarget(source)
        chan == src[1]
        r == [Begin("add", tc) EXCEPT !.src = src]
    IN  /\ Quiet(p)
        /\ nops < MaxOps
        /\ nops' = nops + 1
        /\ UNCHANGED calc
        /\ UNCHANGED <<link, pool, srcdir, tmpdir, hack, lock>>
        /\ IF ManifestVersion(chan) = ""
           THEN /\ Finish(p, r, "add_resolve", "err")
                /\ UNCHANGED marker
           ELSE IF marker[tc] /= NoId
           THEN /\ Finish(p, [r EXCEPT !.id = Id(ResolveChannel(chan))],
                          "add_mark", "err")
                /\ UNCHANGED marker
           ELSE /\ marker' = [marker EXCEPT ![tc] = Id(ResolveChannel(chan))]
                /\ Goto(p, "add_read", [r EXCEPT !.id = Id(ResolveChannel(chan))])

\* Mutant of AddRead: the error of reading a link that is not there is
\* returned.
AddReadStrict(p) ==
    /\ proc[p].pc = "add_read"
    /\ IF link[proc[p].link] = NoId
       THEN Return(p, "err")
       ELSE Goto(p, "add_check", [proc[p] EXCEPT !.und = link[proc[p].link]])
    /\ UNCHANGED <<fs, lock, nops, calc>>

\* soft_link_target(&link).ok(): the link's present target is saved for
\* the GC.
AddRead(p) ==
    /\ proc[p].pc = "add_read"
    /\ Goto(p, "add_check", [proc[p] EXCEPT !.und = link[proc[p].link]])
    /\ UNCHANGED <<fs, lock, nops, calc>>

\* Mutants of AddCheck: the installation is always skipped; the toolchain
\* is always installed.
AddCheckSkips(p) ==
    /\ proc[p].pc = "add_check"
    /\ Goto(p, "add_commit", proc[p])
    /\ UNCHANGED <<fs, lock, nops, calc>>

AddCheckInstalls(p) ==
    /\ proc[p].pc = "add_check"
    /\ Goto(p, "add_install", proc[p])
    /\ UNCHANGED <<fs, lock, nops, calc>>

\* src_with_id.exists()
AddCheck(p) ==
    /\ proc[p].pc = "add_check"
    /\ Goto(p, IF pool[proc[p].id] /= Absent THEN "add_commit" ELSE "add_install",
            proc[p])
    /\ UNCHANGED <<fs, lock, nops, calc>>

\* rustup install src begins to write rustup_home/toolchains/<src> (it
\* leaves a toolchain that is installed as it is).
AddInstall(p) ==
    /\ proc[p].pc = "add_install"
    /\ srcdir' = [srcdir EXCEPT ![proc[p].src] = IF IsFull(@) THEN @ ELSE Partial]
    /\ Goto(p, "add_installing", [proc[p] EXCEPT !.installed = TRUE])
    /\ UNCHANGED <<link, marker, pool, tmpdir, hack, lock, nops, calc>>

\* rustup install exits with success: the toolchain of the channel is there.
AddInstalled(p) ==
    /\ proc[p].pc = "add_installing"
    /\ srcdir' = [srcdir EXCEPT ![proc[p].src] = Full(ResolveChannel(proc[p].src[1]))]
    /\ Goto(p, "add_rename", proc[p])
    /\ UNCHANGED <<link, marker, pool, tmpdir, hack, lock, nops, calc>>

\* Mutant of AddInstallFail: the exit status of rustup install is ignored.
AddInstallFailIgnored(p) ==
    /\ proc[p].pc = "add_installing"
    /\ Goto(p, "add_rename", proc[p])
    /\ UNCHANGED <<fs, lock, nops, calc>>

\* rustup install exits non-zero: Add returns the error.
AddInstallFail(p) ==
    /\ proc[p].pc = "add_installing"
    /\ Return(p, "err")
    /\ UNCHANGED <<fs, lock, nops, calc>>

\* fs::rename(src_old, src_with_id).
AddRename(p) ==
    /\ proc[p].pc = "add_rename"
    /\ IF srcdir[proc[p].src] = Absent \/ pool[proc[p].id] /= Absent
       THEN /\ Return(p, "err")
            /\ UNCHANGED <<pool, srcdir>>
       ELSE /\ pool' = [pool EXCEPT ![proc[p].id] = srcdir[proc[p].src]]
            /\ srcdir' = [srcdir EXCEPT ![proc[p].src] = Absent]
            /\ Goto(p, "add_commit", proc[p])
    /\ UNCHANGED <<link, marker, tmpdir, hack, lock, nops, calc>>

\* fs::rename(&link_in_flight, &link)? and, when the link had a target, the
\* call of gc.
AddCommit(p) ==
    /\ proc[p].pc = "add_commit"
    /\ IF marker[proc[p].link] = NoId
       THEN /\ Return(p, "err")
            /\ UNCHANGED <<link, marker>>
       ELSE /\ link' = [link EXCEPT ![proc[p].link] = marker[proc[p].link]]
            /\ marker' = [marker EXCEPT ![proc[p].link] = NoId]
            /\ IF proc[p].und = NoId
               THEN Return(p, "ok")
               ELSE GcEnter(p, proc[p], Some({proc[p].und}))
    /\ UNCHANGED <<pool, srcdir, tmpdir, hack, lock, nops, calc>>

(***************************************************************************)
(* RmSubCmd::run.                                                          *)
(***************************************************************************)
\* soft_link_target(link)?
RmStart(p, toolchain) ==
    LET tc == QualifyWithTarget(toolchain)
        r == Begin("rm", tc)
    IN  /\ Quiet(p)
        /\ nops < MaxOps
        /\ nops' = nops + 1
        /\ UNCHANGED calc
        /\ UNCHANGED <<fs, lock>>
        /\ IF link[tc] = NoId
           THEN Finish(p, r, "rm_read", "err")
           ELSE Goto(p, "rm_unlink", [r EXCEPT !.und = link[tc]])

\* Mutant of RmUnlink: every link with the target of the link is removed.
RmUnlinkAll(p) ==
    /\ proc[p].pc = "rm_unlink"
    /\ IF link[proc[p].link] = NoId
       THEN /\ Return(p, "err")
            /\ UNCHANGED link
       ELSE /\ link' = [n \in LinkNames |->
                           IF link[n] = link[proc[p].link] THEN NoId ELSE link[n]]
            /\ GcEnter(p, proc[p], Some({proc[p].und}))
    /\ UNCHANGED <<marker, pool, srcdir, tmpdir, hack, lock, nops, calc>>

\* Mutant of RmUnlink: gc is given no candidate.
RmUnlinkNoCandidate(p) ==
    /\ proc[p].pc = "rm_unlink"
    /\ IF link[proc[p].link] = NoId
       THEN /\ Return(p, "err")
            /\ UNCHANGED link
       ELSE /\ link' = [link EXCEPT ![proc[p].link] = NoId]
            /\ GcEnter(p, proc[p], Some({}))
    /\ UNCHANGED <<marker, pool, srcdir, tmpdir, hack, lock, nops, calc>>

\* soft_unlink(link)? and the call of gc.
RmUnlink(p) ==
    /\ proc[p].pc = "rm_unlink"
    /\ IF link[proc[p].link] = NoId
       THEN /\ Return(p, "err")
            /\ UNCHANGED link
       ELSE /\ link' = [link EXCEPT ![proc[p].link] = NoId]
            /\ GcEnter(p, proc[p], Some({proc[p].und}))
    /\ UNCHANGED <<marker, pool, srcdir, tmpdir, hack, lock, nops, calc>>

(***************************************************************************)
(* Ctx::modify_components (comp-add when add, comp-rm when not).           *)
(***************************************************************************)
\* The set of the names of a list, each qualified with the target.
Qualified(comps) == {QualifyWithTarget(comps[i]) : i \in DOMAIN comps}

\* The component set after the loop over comps.
Modified(components, comps, add) ==
    IF add THEN components \cup Qualified(comps) ELSE components \ Qualified(comps)

\* link.canonicalize()?, IdentifiableToolchain::new(&underlying_path)? and
\* the new identity.
CompStart(p, toolchain, comps, add) ==
    LET tc == QualifyWithTarget(toolchain)
        old == link[tc]
        r == [Begin("comp", tc) EXCEPT !.add = add, !.delta = Qualified(comps),
                                       !.args = comps]
    IN  /\ Quiet(p)
        /\ nops < MaxOps
        /\ nops' = nops + 1
        /\ UNCHANGED calc
        /\ UNCHANGED <<fs, lock>>
        /\ IF comps = << >>
           THEN Finish(p, r, "comp_empty", "ok")
           ELSE IF old = NoId \/ ~IsFull(pool[old])
           THEN Finish(p, r, "comp_read", "err")
           ELSE Goto(p, "comp_mark",
                     [r EXCEPT !.und = old,
                               !.id = Id(<<pool[old][1],
                                           Modified(pool[old][2], comps, add)>>)])

\* Mutant of CompMark: when the marker cannot be created, the path in its
\* way is removed before the error is returned.
CompMarkFailCleans(p) ==
    /\ proc[p].pc = "comp_mark"
    /\ IF marker[proc[p].link] /= NoId
       THEN /\ Return(p, "err")
            /\ marker' = [marker EXCEPT ![proc[p].link] = NoId]
       ELSE /\ marker' = [marker EXCEPT ![proc[p].link] = proc[p].id]
            /\ Goto(p, "comp_check", proc[p])
    /\ UNCHANGED <<link, pool, srcdir, tmpdir, hack, lock, nops, calc>>

\* Mutant of CompMark: the in-flight marker is not created.
CompMarkSkipped(p) ==
    /\ proc[p].pc = "comp_mark"
    /\ Goto(p, "comp_check", proc[p])
    /\ UNCHANGED <<fs, lock, nops, calc>>

\* util::soft_link(&new_toolchain_dir, &link_in_flight)?
CompMark(p) ==
    /\ proc[p].pc = "comp_mark"
    /\ IF marker[proc[p].link] /= NoId
       THEN /\ Return(p, "err")
            /\ UNCHANGED marker
       ELSE /\ marker' = [marker EXCEPT ![proc[p].link] = proc[p].id]
            /\ Goto(p, "comp_check", proc[p])
    /\ UNCHANGED <<link, pool, srcdir, tmpdir, hack, lock, nops, calc>>

\* new_toolchain_dir.exists()
CompCheck(p) ==
    /\ proc[p].pc = "comp_check"
    /\ Goto(p, IF pool[proc[p].id] /= Absent THEN "comp_commit" ELSE "comp_copy",
            proc[p])
    /\ UNCHANGED <<fs, lock, nops, calc>>

\* copy_dir_all begins: fs::create_dir(&dst)?
CompCopy(p) ==
    /\ proc[p].pc = "comp_copy"
    /\ IF tmpdir[proc[p].id] /= Absent
       THEN /\ Return(p, "err")
            /\ UNCHANGED tmpdir
       ELSE /\ tmpdir' = [tmpdir EXCEPT ![proc[p].id] = Partial]
            /\ Goto(p, "comp_copying", proc[p])
    /\ UNCHANGED <<link, marker, pool, srcdir, hack, lock, nops, calc>>

\* Mutant of CompCopied: the underlying toolchain is moved, not copied.
CompMoved(p) ==
    /\ proc[p].pc = "comp_copying"
    /\ IF pool[proc[p].und] = Absent \/ tmpdir[proc[p].id] = Absent
       THEN /\ Return(p, "err")
            /\ UNCHANGED <<pool, tmpdir>>
       ELSE /\ tmpdir' = [tmpdir EXCEPT ![proc[p].id] = pool[proc[p].und]]
            /\ pool' = [pool EXCEPT ![proc[p].und] = Absent]
            /\ Goto(p, "comp_hack", proc[p])
    /\ UNCHANGED <<link, marker, srcdir, hack, lock, nops, calc>>

\* copy_dir_all ends: the tree of the underlying toolchain is copied.
CompCopied(p) ==
    /\ proc[p].pc = "comp_copying"
    /\ IF pool[proc[p].und] = Absent \/ tmpdir[proc[p].id] = Absent
       THEN /\ Return(p, "err")
            /\ UNCHANGED tmpdir
       ELSE /\ tmpdir' = [tmpdir EXCEPT ![proc[p].id] = pool[proc[p].und]]
            /\ Goto(p, "comp_hack", proc[p])
    /\ UNCHANGED <<link, marker, pool, srcdir, hack, lock, nops, calc>>

\* util::soft_link(&tmp_dir, &hack_link)?
CompHack(p) ==
    /\ proc[p].pc = "comp_hack"
    /\ IF hack /= NoId
       THEN /\ Return(p, "err")
            /\ UNCHANGED hack
       ELSE /\ hack' = proc[p].id
            /\ Goto(p, "comp_edit", proc[p])
    /\ UNCHANGED <<link, marker, pool, srcdir, tmpdir, lock, nops, calc>>

\* The name rustup records a component under in lib/rustlib/components: a
\* component that is built per target carries the target, one that is not
\* (rust-src) does not.
TargetIndependent == {"rust-src"}
RustupName(comp) == <<comp[1], comp[1] \notin TargetIndependent>>
RustupNames(comps) == {RustupName(comps[i]) : i \in DOMAIN comps}

\* The toolchain directory after rustup component add/remove of the
\* components.
Edited(dir, comps, add) ==
    <<dir[1],
      IF add THEN dir[2] \cup RustupNames(comps) ELSE dir[2] \ RustupNames(comps),
      dir[3]>>

\* Mutant of CompEdit: stable-<host> leads to the underlying toolchain, which
\* is edited in place.
CompEditInPlace(p) ==
    /\ proc[p].pc = "comp_edit"
    /\ hack /= NoId
    /\ pool[proc[p].und] /= Absent
    /\ pool' = [pool EXCEPT ![proc[p].und] = Edited(@, proc[p].args, proc[p].add)]
    /\ Goto(p, "comp_unhack", proc[p])
    /\ UNCHANGED <<link, marker, srcdir, tmpdir, hack, lock, nops, calc>>

\* rustup component <op> <comps> with RUSTUP_TOOLCHAIN=stable-<host> exits
\* with success: the directory that stable-<host> targets is edited.
CompEdit(p) ==
    /\ proc[p].pc = "comp_edit"
    /\ hack /= NoId
    /\ tmpdir[hack] /= Absent
    /\ tmpdir' = [tmpdir EXCEPT ![hack] = Edited(@, proc[p].args, proc[p].add)]
    /\ Goto(p, "comp_unhack", proc[p])
    /\ UNCHANGED <<link, marker, pool, srcdir, hack, lock, nops, calc>>

\* rustup component exits non-zero: the edit returns the error.
CompEditFail(p) ==
    /\ proc[p].pc = "comp_edit"
    /\ tmpdir' = IF hack /= NoId /\ tmpdir[hack] /= Absent
                 THEN [tmpdir EXCEPT ![hack] = Partial]
                 ELSE tmpdir
    /\ Return(p, "err")
    /\ UNCHANGED <<link, marker, pool, srcdir, hack, lock, nops, calc>>

\* util::soft_unlink(&hack_link)?
CompUnhack(p) ==
    /\ proc[p].pc = "comp_unhack"
    /\ IF hack = NoId
       THEN /\ Return(p, "err")
            /\ UNCHANGED hack
       ELSE /\ hack' = NoId
            /\ Goto(p, "comp_rename", proc[p])
    /\ UNCHANGED <<link, marker, pool, srcdir, tmpdir, lock, nops, calc>>

\* fs::rename(&tmp_dir, &new_toolchain_dir)?
CompRename(p) ==
    /\ proc[p].pc = "comp_rename"
    /\ IF tmpdir[proc[p].id] = Absent \/ pool[proc[p].id] /= Absent
       THEN /\ Return(p, "err")
            /\ UNCHANGED <<pool, tmpdir>>
       ELSE /\ pool' = [pool EXCEPT ![proc[p].id] = tmpdir[proc[p].id]]
            /\ tmpdir' = [tmpdir EXCEPT ![proc[p].id] = Absent]
            /\ Goto(p, "comp_commit", proc[p])
    /\ UNCHANGED <<link, marker, srcdir, hack, lock, nops, calc>>

\* Mutant of CompCommit: gc is given no candidate.
CompCommitNoCandidate(p) ==
    /\ proc[p].pc = "comp_commit"
    /\ IF marker[proc[p].link] = NoId
       THEN /\ Return(p, "err")
            /\ UNCHANGED <<link, marker>>
       ELSE /\ link' = [link EXCEPT ![proc[p].link] = marker[proc[p].link]]
            /\ marker' = [marker EXCEPT ![proc[p].link] = NoId]
            /\ GcEnter(p, proc[p], Some({}))
    /\ UNCHANGED <<pool, srcdir, tmpdir, hack, lock, nops, calc>>

\* fs::rename(&link_in_flight, &link)? and the call of gc.
CompCommit(p) ==
    /\ proc[p].pc = "comp_commit"
    /\ IF marker[proc[p].link] = NoId
       THEN /\ Return(p, "err")
            /\ UNCHANGED <<link, marker>>
       ELSE /\ link' = [link EXCEPT ![proc[p].link] = marker[proc[p].link]]
            /\ marker' = [marker EXCEPT ![proc[p].link] = NoId]
            /\ GcEnter(p, proc[p], Some({proc[p].und}))
    /\ UNCHANGED <<pool, srcdir, tmpdir, hack, lock, nops, calc>>

\* The process is killed between two steps.  The lock file stays.
Crash(p) ==
    /\ ~Quiet(p)
    /\ Return(p, "crash")
    /\ UNCHANGED <<fs, lock, nops, calc>>

\* A subcommand starts.
AddStarts(p) == \E t \in Toolchains, s \in Sources : AddStart(p, t, s)
RmStarts(p) == \E t \in Toolchains : RmStart(p, t)
CompStarts(p) ==
    \E t \in Toolchains, cs \in CompArgs, add \in BOOLEAN : CompStart(p, t, cs, add)

\* The next call of a subcommand that has started.
AddRuns(p) ==
    \/ AddRead(p)
    \/ AddCheck(p)
    \/ AddInstall(p)
    \/ AddInstalled(p)
    \/ AddInstallFail(p)
    \/ AddRename(p)
    \/ AddCommit(p)

CompRuns(p) ==
    \/ CompMark(p)
    \/ CompCheck(p)
    \/ CompCopy(p)
    \/ CompCopied(p)
    \/ CompHack(p)
    \/ CompEdit(p)
    \/ CompEditFail(p)
    \/ CompUnhack(p)
    \/ CompRename(p)
    \/ CompCommit(p)

GcRuns(p) ==
    \/ GcLock(p)
    \/ GcLockFail(p)
    \/ GcScan(p)
    \/ GcScanFail(p)
    \/ GcUninstall(p)
    \/ GcUninstallFail(p)
    \/ GcDone(p)

Step(p) ==
    \/ AddStarts(p)
    \/ AddRuns(p)
    \/ RmStarts(p)
    \/ RmUnlink(p)
    \/ CompStarts(p)
    \/ CompRuns(p)
    \/ GcRuns(p)
    \/ Crash(p)

\* One subcommand at a time.
Next == Step(1)
Spec == Init /\ [][Next]_vars

\* One subcommand at a time, when every run of rustup and every read of
\* the links directory succeeds, the lock is free and no process is killed.
NextOk ==
    \/ AddStarts(1)
    \/ AddRead(1)
    \/ AddCheck(1)
    \/ AddInstall(1)
    \/ AddInstalled(1)
    \/ AddRename(1)
    \/ AddCommit(1)
    \/ RmStarts(1)
    \/ RmUnlink(1)
    \/ CompStarts(1)
    \/ CompMark(1)
    \/ CompCheck(1)
    \/ CompCopy(1)
    \/ CompCopied(1)
    \/ CompHack(1)
    \/ CompEdit(1)
    \/ CompUnhack(1)
    \/ CompRename(1)
    \/ CompCommit(1)
    \/ GcLock(1)
    \/ GcScan(1)
    \/ GcUninstall(1)
    \/ GcDone(1)

SpecOk == Init /\ [][NextOk]_vars

\* One subcommand at a time, from the state that `add 1.81` followed by
\* `add dev --source 1.81.0` leaves: two links that share one pool entry.
InitShared ==
    LET tc == ResolveChannel("1.81.0")
    IN  /\ link = [n \in LinkNames |-> Id(tc)]
        /\ marker = [n \in LinkNames |-> NoId]
        /\ pool = [i \in PoolIds |-> IF i = Id(tc) THEN Full(tc) ELSE Absent]
        /\ srcdir = [s \in SrcNames |-> Absent]
        /\ tmpdir = [i \in PoolIds |-> Absent]
        /\ hack = NoId
        /\ lock = 0
        /\ proc = [p \in Procs |-> Idle]
        /\ last = NoLast
        /\ nops = 0
        /\ calc = NoCalc

SpecShared == InitShared /\ [][Next]_vars

\* Component edits of different processes interleave, on two links that
\* share one pool entry.
\* comp-add clippy and comp-rm cargo.
EditArgs == {<< << <<"clippy", FALSE>> >>, TRUE>>, << << <<"cargo", FALSE>> >>, FALSE>>}

EditStarts(p) ==
    \E t \in Toolchains, e \in EditArgs : CompStart(p, t, e[1], e[2])

NextEdits ==
    \E p \in Procs :
        \/ EditStarts(p)
        \/ CompRuns(p)
        \/ GcRuns(p)
        \/ Crash(p)

SpecEdits == InitShared /\ [][NextEdits]_vars

\* Subcommands of different processes interleave.
NextConc == \E p \in Procs : Step(p)
SpecConc == Init /\ [][NextConc]_vars

\* The state that `add 1.81` leaves: one link, which targets the one pool
\* entry.
InitAdded ==
    LET tc == ResolveChannel("1.81")
        l == QualifyWithTarget(<<"1.81", FALSE>>)
    IN  /\ link = [n \in LinkNames |-> IF n = l THEN Id(tc) ELSE NoId]
        /\ marker = [n \in LinkNames |-> NoId]
        /\ pool = [i \in PoolIds |-> IF i = Id(tc) THEN Full(tc) ELSE Absent]
        /\ srcdir = [s \in SrcNames |-> Absent]
        /\ tmpdir = [i \in PoolIds |-> Absent]
        /\ hack = NoId
        /\ lock = 0
        /\ proc = [p \in Procs |-> Idle]
        /\ last = NoLast
        /\ nops = 1
        /\ calc = NoCalc

\* Add and Rm subcommands of different processes interleave, after `add 1.81`.
NextRace ==
    \E p \in Procs :
        \/ AddStarts(p)
        \/ AddRuns(p)
        \/ RmStarts(p)
        \/ RmUnlink(p)
        \/ GcRuns(p)
        \/ Crash(p)

SpecRace == InitAdded /\ [][NextRace]_vars

\* The state that `add 1.81`, `add dev --source 1.92.0` and an `rm dev`
\* that is killed before its gc leave: a link on one pool entry, and a pool
\* entry that no link targets.
InitOrphan ==
    LET tc == ResolveChannel("1.81")
        orphan == ResolveChannel("1.92.0")
        l == QualifyWithTarget(<<"1.81", FALSE>>)
    IN  /\ link = [n \in LinkNames |-> IF n = l THEN Id(tc) ELSE NoId]
        /\ marker = [n \in LinkNames |-> NoId]
        /\ pool = [i \in PoolIds |->
                      IF i = Id(tc) THEN Full(tc)
                      ELSE IF i = Id(orphan) THEN Full(orphan) ELSE Absent]
        /\ srcdir = [s \in SrcNames |-> Absent]
        /\ tmpdir = [i \in PoolIds |-> Absent]
        /\ hack = NoId
        /\ lock = 0
        /\ proc = [p \in Procs |-> Idle]
        /\ last = NoLast
        /\ nops = 0
        /\ calc = NoCalc

\* Calls of Ctx::gc by different processes interleave.
GcStarts(p) == \E c \in GcArgs : GcStart(p, c)
NextGc == \E p \in Procs : GcStarts(p) \/ GcRuns(p) \/ Crash(p)
SpecGc == InitOrphan /\ [][NextGc]_vars

\* The same, when a process that is not killed goes on to its next call:
\* the acquire of the lock ends within its backoff, and every read of the
\* links directory and every run of rustup comes to an end.
SpecGcFair == SpecGc /\ \A p \in Procs : WF_vars(GcRuns(p))

\* Add subcommands and calls of Ctx::gc, one at a time.
NextRepoint ==
    \/ AddStarts(1)
    \/ AddRuns(1)
    \/ GcStarts(1)
    \/ GcRuns(1)
    \/ Crash(1)

SpecRepoint == InitOrphan /\ [][NextRepoint]_vars

\* Rm subcommands and calls of Ctx::gc by different processes interleave.
NextRetry ==
    \E p \in Procs :
        \/ RmStarts(p)
        \/ RmUnlink(p)
        \/ GcStarts(p)
        \/ GcRuns(p)
        \/ Crash(p)

SpecRetry == InitOrphan /\ [][NextRetry]_vars

\* The state that `add 1.81`, `comp-add 1.81 clippy`, `add dev --source
\* 1.92.0` and `comp-add dev clippy` leave when each edit is killed before
\* its gc: each link targets the edited toolchain, and the two toolchains
\* that were installed are pool entries that no link targets.
WithClippy(tc) == <<tc[1], tc[2] \cup {QualifyWithTarget(<<"clippy", FALSE>>)}>>

InitOrphans ==
    LET a == ResolveChannel("1.81")
        b == ResolveChannel("1.92.0")
        la == QualifyWithTarget(<<"1.81", FALSE>>)
        present == {a, b, WithClippy(a), WithClippy(b)}
    IN  /\ link = [n \in LinkNames |->
                      IF n = la THEN Id(WithClippy(a)) ELSE Id(WithClippy(b))]
        /\ marker = [n \in LinkNames |-> NoId]
        /\ pool = [i \in PoolIds |->
                      IF \E tc \in present : i = Id(tc)
                      THEN Full(CHOOSE tc \in present : i = Id(tc))
                      ELSE Absent]
        /\ srcdir = [s \in SrcNames |-> Absent]
        /\ tmpdir = [i \in PoolIds |-> Absent]
        /\ hack = NoId
        /\ lock = 0
        /\ proc = [p \in Procs |-> Idle]
        /\ last = NoLast
        /\ nops = 0
        /\ calc = NoCalc

\* The candidates of a sweep: none, or the two toolchains no link targets.
SweepArgs ==
    {None, Some({Id(ResolveChannel("1.81")), Id(ResolveChannel("1.92.0"))})}

\* Sweeps of different processes interleave.
SweepStarts(p) == \E c \in SweepArgs : GcStart(p, c)
NextSweep == \E p \in Procs : SweepStarts(p) \/ GcRuns(p) \/ Crash(p)
SpecSweep == InitOrphans /\ [][NextSweep]_vars

(***************************************************************************)
(* IdentifiableToolchain::id, computed as toolchain.rs computes it.  A     *)
(* version is the sequence of its characters; a component name is as       *)
(* above.                                                                  *)
(***************************************************************************)
\* pkg.rust.version strings: "1.81.0", "1.81.0 (eeb90cda1 2024-09-04)",
\* "1.92.0", "dev" and "".
VersionStrings ==
    { <<"1", ".", "8", "1", ".", "0">>,
      <<"1", ".", "8", "1", ".", "0", " ", "(eeb90cda1 2024-09-04)">>,
      <<"1", ".", "9", "2", ".", "0">>,
      <<"d", "e", "v">>,
      << >> }

\* The component names an identity is computed for, in the order of their
\* strings: cargo-<host>, rust-src, rust-src-<host>, rustc-<host>.
NameOrder ==
    << <<"cargo", TRUE>>, <<"rust-src", FALSE>>, <<"rust-src", TRUE>>,
       <<"rustc", TRUE>> >>

RECURSIVE ListsOf(_, _)
ListsOf(names, len) ==
    IF len = 0
    THEN {<< >>}
    ELSE ListsOf(names, len - 1)
             \cup {Append(l, n) : l \in ListsOf(names, len - 1), n \in names}

ComponentLists == ListsOf({NameOrder[i] : i \in DOMAIN NameOrder}, MaxComps)

\* .collect() into the BTreeSet: the elements of the list.
Collect(list) == {list[i] : i \in DOMAIN list}

\* The elements of a BTreeSet in the order it iterates and hashes them.
InOrder(components) == SelectSeq(NameOrder, LAMBDA n : n \in components)

\* ver.bytes().take_while(|&b| b".0123456789".contains(&b)).count()
RECURSIVE VerRlimit(_)
VerRlimit(ver) ==
    IF ver /= << >> /\ Head(ver) \in {".", "0", "1", "2", "3", "4", "5", "6", "7", "8", "9"}
    THEN 1 + VerRlimit(Tail(ver))
    ELSE 0

ShortVer(ver) == SubSeq(ver, 1, VerRlimit(ver))

\* XxHash64 with the seed SEED of the bytes written to it: the hash is taken
\* to be collision free, so it is the bytes it is computed from.
XxHash64(written) == <<"feedc0011ced7ea5", written>>

\* What Hash for BTreeSet<String> writes: the length, then each element.
HashWrites(components) == <<Cardinality(components)>> \o InOrder(components)

\* Mutant of IdString: the first hash is taken of short_ver, not of ver.
IdStringOfShortVer(tc) ==
    << IF ShortVer(tc[1]) = << >> THEN <<"unknown">> ELSE ShortVer(tc[1]),
       XxHash64(ShortVer(tc[1])),
       XxHash64(HashWrites(tc[2])) >>

\* id(): "{short_ver or unknown}-{hash of ver}-{hash of components}" of
\* the toolchain <<rust_ver, components>>.
IdString(tc) ==
    << IF ShortVer(tc[1]) = << >> THEN <<"unknown">> ELSE ShortVer(tc[1]),
       XxHash64(tc[1]),
       XxHash64(HashWrites(tc[2])) >>

\* Two toolchains are built from a version and a list of component names
\* each, and their identities are computed.
InitId ==
    /\ link = [n \in LinkNames |-> NoId]
    /\ marker = [n \in LinkNames |-> NoId]
    /\ pool = [i \in PoolIds |-> Absent]
    /\ srcdir = [s \in SrcNames |-> Absent]
    /\ tmpdir = [i \in PoolIds |-> Absent]
    /\ hack = NoId
    /\ lock = 0
    /\ proc = [p \in Procs |-> Idle]
    /\ last = NoLast
    /\ nops = 0
    /\ calc \in [op : {"id"}, done : {FALSE},
                 ver : VersionStrings \X VersionStrings,
                 comps : ComponentLists \X ComponentLists,
                 id : {<< >>}]

IdComputed ==
    /\ calc /= NoCalc /\ calc.op = "id" /\ ~calc.done
    /\ calc' = [calc EXCEPT
                   !.done = TRUE,
                   !.id = << IdString(<<calc.ver[1], Collect(calc.comps[1])>>),
                             IdString(<<calc.ver[2], Collect(calc.comps[2])>>) >>]
    /\ UNCHANGED <<fs, lock, proc, last, nops>>

NextId == IdComputed
SpecId == InitId /\ [][NextId]_vars

(***************************************************************************)
(* HashEncoder::encode.  A u64 is the sequence of its eight big-endian     *)
(* bytes (hash.to_be_bytes()), so that no number exceeds the integers of   *)
(* the model checker; a string is the sequence of its symbols.             *)
(***************************************************************************)
ALPHABET ==
    << "0", "1", "2", "3", "4", "5", "6", "7", "8", "9", "a", "b", "c", "d",
       "e", "f", "h", "j", "k", "m", "n", "q", "p", "r", "s", "t", "u", "v",
       "w", "x", "y", "z" >>

\* The values a byte of a hash takes: 0, 1 and 255, and 254 as well for the
\* least significant byte.
ByteValues == {0, 1, 254, 255}
Hashes == {h \in [1 .. 8 -> ByteValues] : \A i \in 1 .. 7 : h[i] /= 254}

\* ((size_of::<u64>() as f32) * 8. / 32_f32.log2()).ceil(), log2(32) = 5.
Width == (8 * 8 + (5 - 1)) \div 5

\* The number with the digits `digits` in base `radix`, divided by `by`:
\* <<the digits of the quotient, the remainder>>.
RECURSIVE DivMod(_, _, _, _)
DivMod(digits, radix, by, rem) ==
    IF digits = << >>
    THEN << << >>, rem >>
    ELSE LET acc == rem * radix + Head(digits)
             rest == DivMod(Tail(digits), radix, by, acc % by)
         IN  << <<acc \div by>> \o rest[1], rest[2] >>

IsZero(digits) == \A i \in DOMAIN digits : digits[i] = 0

\* The digits of a number in base `to`, most significant first, with no
\* leading zero (one digit for zero).
RECURSIVE ToBase(_, _, _)
ToBase(digits, radix, to) ==
    LET qr == DivMod(digits, radix, to, 0)
    IN  IF IsZero(qr[1])
        THEN <<qr[2]>>
        ELSE ToBase(qr[1], radix, to) \o <<qr[2]>>

\* The zero bytes before the first non-zero byte, the last byte left out.
RECURSIVE Leaders(_)
Leaders(bytes) ==
    IF Len(bytes) > 1 /\ Head(bytes) = 0
    THEN <<0>> \o Leaders(Tail(bytes))
    ELSE << >>

\* base_x::encode(ALPHABET, bytes): a symbol for each leading zero byte,
\* then the digits of the number in base 32.
BaseX(bytes) ==
    LET digits == Leaders(bytes) \o ToBase(bytes, 256, Len(ALPHABET))
    IN  [i \in DOMAIN digits |-> ALPHABET[digits[i] + 1]]

\* Mutant of Encode: the string is not padded.
EncodeUnpadded(hash) == BaseX(hash)

\* format!("{raw:0>width$}"): raw, with "0" put before it up to the width.
Encode(hash) ==
    LET raw == BaseX(hash)
    IN  IF Len(raw) >= Width
        THEN raw
        ELSE [i \in 1 .. Width - Len(raw) |-> "0"] \o raw

InitEncode ==
    /\ link = [n \in LinkNames |-> NoId]
    /\ marker = [n \in LinkNames |-> NoId]
    /\ pool = [i \in PoolIds |-> Absent]
    /\ srcdir = [s \in SrcNames |-> Absent]
    /\ tmpdir = [i \in PoolIds |-> Absent]
    /\ hack = NoId
    /\ lock = 0
    /\ proc = [p \in Procs |-> Idle]
    /\ last = NoLast
    /\ nops = 0
    /\ calc \in [op : {"encode"}, done : {FALSE}, hash : Hashes, out : {<< >>}]

Encoded ==
    /\ calc /= NoCalc /\ calc.op = "encode" /\ ~calc.done
    /\ calc' = [calc EXCEPT !.done = TRUE, !.out = Encode(calc.hash)]
    /\ UNCHANGED <<fs, lock, proc, last, nops>>

NextEncode == Encoded
SpecEncode == InitEncode /\ [][NextEncode]_vars

(***************************************************************************)
(* Properties.                                                             *)
(***************************************************************************)
Done(p) == proc[p].pc = "done"
Returned(p) == Done(p) /\ proc[p].res \in {"ok", "err"}
Ok(p) == Done(p) /\ proc[p].res = "ok"
Targeted(id) == id /= NoId /\ \E n \in LinkNames : link[n] = id
Marked(id) == id /= NoId /\ \E n \in LinkNames : marker[n] = id

\* The steps between the creation of the in-flight marker and the rename
\* that commits it.
Staged ==
    {"add_read", "add_check", "add_install", "add_installing", "add_rename",
     "add_commit", "comp_check", "comp_copy", "comp_copying", "comp_hack",
     "comp_edit", "comp_unhack", "comp_rename", "comp_commit"}

\* The state that SpecShared begins in, as a state of Spec.
SharedReached ==
    /\ Done(1)
    /\ \A n \in LinkNames : link[n] = Id(ResolveChannel("1.81.0"))
    /\ \A n \in LinkNames : marker[n] = NoId
    /\ pool = [i \in PoolIds |->
                  IF i = Id(ResolveChannel("1.81.0"))
                  THEN Full(ResolveChannel("1.81.0")) ELSE Absent]
    /\ \A s \in SrcNames : srcdir[s] = Absent
    /\ \A i \in PoolIds : tmpdir[i] = Absent
    /\ hack = NoId /\ lock = 0

\* The state that SpecRace begins in, as a state of Spec.
AddedReached ==
    /\ Ok(1) /\ proc[1].op = "add" /\ nops = 1
    /\ link = [n \in LinkNames |->
                  IF n = QualifyWithTarget(<<"1.81", FALSE>>)
                  THEN Id(ResolveChannel("1.81")) ELSE NoId]
    /\ \A n \in LinkNames : marker[n] = NoId
    /\ pool = [i \in PoolIds |->
                  IF i = Id(ResolveChannel("1.81"))
                  THEN Full(ResolveChannel("1.81")) ELSE Absent]
    /\ \A s \in SrcNames : srcdir[s] = Absent
    /\ \A i \in PoolIds : tmpdir[i] = Absent
    /\ hack = NoId /\ lock = 0

\* The state that SpecGc begins in, as a state of Spec.
OrphanReached ==
    /\ Done(1) /\ proc[1].op = "rm" /\ proc[1].res = "crash"
    /\ link = [n \in LinkNames |->
                  IF n = QualifyWithTarget(<<"1.81", FALSE>>)
                  THEN Id(ResolveChannel("1.81")) ELSE NoId]
    /\ \A n \in LinkNames : marker[n] = NoId
    /\ pool = [i \in PoolIds |->
                  IF i = Id(ResolveChannel("1.81"))
                  THEN Full(ResolveChannel("1.81"))
                  ELSE IF i = Id(ResolveChannel("1.92.0"))
                  THEN Full(ResolveChannel("1.92.0")) ELSE Absent]
    /\ \A s \in SrcNames : srcdir[s] = Absent
    /\ \A i \in PoolIds : tmpdir[i] = Absent
    /\ hack = NoId /\ lock = 0

\* C1: gc uninstalls no pool entry that a link targets: what it is about to
\* uninstall and what it has uninstalled is the target of no link, it
\* returns an error only with a candidate left to uninstall, and an Rm of a
\* link whose target another link shares leaves that entry in the pool.
C1_GcSparesReferenced ==
    \A p \in Procs :
        /\ proc[p].pc = "gc_rm" \/ (Done(p) /\ proc[p].at = "gc_rm") =>
              /\ \A id \in proc[p].todo \cup proc[p].swept : ~Targeted(id)
              /\ proc[p].res = "err" => proc[p].todo /= {}
        /\ Ok(p) /\ proc[p].op = "rm" /\ Targeted(proc[p].und) =>
              IsFull(pool[proc[p].und]) /\ proc[p].swept = {}

C1_Witness ==
    /\ Ok(1) /\ proc[1].op = "rm" /\ proc[1].at = "gc_rm"
    /\ Targeted(proc[1].und)
    /\ IsFull(pool[proc[1].und])

\* C2: when a subcommand has returned, every link targets a pool entry that
\* is in the pool.
C2_LinksResolve ==
    Returned(1) =>
        \A n \in LinkNames : link[n] /= NoId => pool[link[n]] /= Absent

C2_Witness ==
    /\ Returned(1) /\ proc[1].res = "err" /\ proc[1].at = "add_installing"
    /\ Targeted(proc[1].pre)

\* C3: when the processes have returned, no link targets a pool entry that
\* is not in the pool, however the gc of one and the transaction of the
\* other interleaved.
C3_NoDanglingLinkAfterRace ==
    (\A p \in Procs : Returned(p)) =>
        \A n \in LinkNames : link[n] /= NoId => pool[link[n]] /= Absent

C5_StagedKeepsBinding ==
    \A p \in Procs :
        \/ proc[p].pc \in Staged
        \/ Done(p) /\ proc[p].res \in {"err", "crash"} /\ proc[p].at \in Staged
        => /\ link[proc[p].link] = proc[p].pre
           /\ proc[p].pre /= NoId => IsFull(pool[proc[p].pre])

C5_Witness ==
    /\ Done(1) /\ proc[1].res = "crash" /\ proc[1].at = "comp_rename"
    /\ proc[1].pre /= NoId
    /\ marker[proc[1].link] /= NoId

\* C6 as stated: an Rm that returns Ok and leaves no link on the entry its
\* link targeted has removed the link and the entry.
C6_LastRmRemovesEntry ==
    \A p \in Procs :
        Ok(p) /\ proc[p].op = "rm" /\ ~Targeted(proc[p].und) =>
            link[proc[p].link] = NoId /\ pool[proc[p].und] = Absent

\* C6 amended: the same when no in-flight marker targets the entry either.
C6_LastRmRemovesUnmarkedEntry ==
    \A p \in Procs :
        Ok(p) /\ proc[p].op = "rm" /\ ~Targeted(proc[p].und)
              /\ ~Marked(proc[p].und) =>
            link[proc[p].link] = NoId /\ pool[proc[p].und] = Absent

C6_Witness ==
    /\ Ok(1) /\ proc[1].op = "rm" /\ ~Targeted(proc[1].und)
    /\ proc[1].swept = {proc[1].und}
    /\ link[proc[1].link] = NoId /\ pool[proc[1].und] = Absent

\* C7: an Add that returns Ok has bound its link to the pool entry of the
\* identity its source resolves to, so that two links of one identity share
\* one entry; and the installer runs only when that entry is not in the
\* pool, never for an identity that a link already targets.
C7_SharedEntryInstalledOnce ==
    \A p \in Procs :
        /\ Ok(p) /\ proc[p].op = "add" =>
              link[proc[p].link] = proc[p].id /\ IsFull(pool[proc[p].id])
        /\ proc[p].pc \in {"add_install", "add_installing"} =>
              pool[proc[p].id] = Absent /\ ~Targeted(proc[p].id)
        /\ Ok(p) /\ proc[p].op = "add"
              /\ (\E n \in LinkNames \ {proc[p].link} : link[n] = proc[p].id) =>
              ~proc[p].installed

C7_Witness ==
    /\ Ok(1) /\ proc[1].op = "add" /\ ~proc[1].installed
    /\ \E n \in LinkNames \ {proc[1].link} :
          link[n] = proc[1].id /\ link[proc[1].link] = proc[1].id

\* C8 as stated: an Add that returns Ok after repointing its link from A to
\* another identity B, with no link left on A, leaves the link on B, B in
\* the pool and A not in the pool.
C8_RepointCollectsOld ==
    \A p \in Procs :
        Ok(p) /\ proc[p].op = "add" /\ proc[p].pre /= NoId
              /\ proc[p].pre /= proc[p].id /\ ~Targeted(proc[p].pre) =>
            /\ link[proc[p].link] = proc[p].id
            /\ IsFull(pool[proc[p].id])
            /\ pool[proc[p].pre] = Absent

\* C8 amended: the same when no in-flight marker targets A either.
C8_RepointCollectsUnmarkedOld ==
    \A p \in Procs :
        Ok(p) /\ proc[p].op = "add" /\ proc[p].pre /= NoId
              /\ proc[p].pre /= proc[p].id /\ ~Targeted(proc[p].pre)
              /\ ~Marked(proc[p].pre) =>
            /\ link[proc[p].link] = proc[p].id
            /\ IsFull(pool[proc[p].id])
            /\ pool[proc[p].pre] = Absent

C8_Witness ==
    /\ Ok(1) /\ proc[1].op = "add" /\ proc[1].pre /= NoId
    /\ proc[1].pre /= proc[1].id /\ ~Targeted(proc[1].pre)
    /\ proc[1].swept = {proc[1].pre}
    /\ link[proc[1].link] = proc[1].id

\* C9: when a component edit that undoes the edit before it (same
\* link, same components, the other direction) has returned Ok, the link
\* targets the identity it targeted before the first edit, that entry is in
\* the pool, and the entry the first edit made is not.
C9_UndoRestoresAndCollects ==
    Ok(1) /\ last.valid /\ last.undo =>
        /\ last.to = last.origin
        /\ link[last.link] = last.origin
        /\ IsFull(pool[last.origin])
        /\ pool[last.from] = Absent

\* C10: no two processes are materializing the pool entry of one identity
\* at the same time.
Materializing(p) ==
    proc[p].pc \in {"add_installing", "add_rename", "comp_copying", "comp_hack",
                    "comp_edit", "comp_unhack", "comp_rename"}

C10_OneWriterPerEntry ==
    \A p, q \in Procs :
        p /= q /\ Materializing(p) /\ Materializing(q) => proc[p].id /= proc[q].id

\* C11: no two processes are in gc's critical section at the same time, and
\* a process that is about to read the links directory or to uninstall a
\* toolchain holds pool_gc.lock.
InGc(p) == proc[p].pc \in {"gc_scan", "gc_rm"}

C11_GcMutualExclusion ==
    /\ \A p, q \in Procs : p /= q => ~(InGc(p) /\ InGc(q))
    /\ \A p \in Procs : InGc(p) => lock = p

C11_Witness ==
    /\ proc[1].pc = "gc_rm" /\ proc[1].todo /= {}
    /\ proc[2].pc = "gc_lock"
    /\ lock = 1

\* C12: a gc that returns after it acquired the lock (Ok, an error of the
\* scan or an error of an uninstall) no longer holds the lock, and the step
\* in which it returns leaves the lock free: a gc that asks for it next
\* acquires it.
AcquiredAndReturned(p) == Returned(p) /\ proc[p].at \in {"gc_scan", "gc_rm"}

NotHeldByReturned == \A p \in Procs : AcquiredAndReturned(p) => lock /= p

C12_LockReleasedOnReturn ==
    /\ NotHeldByReturned
    /\ [][/\ NotHeldByReturned'
          /\ \A p \in Procs :
                InGc(p) /\ lock = p /\ Returned(p)' => lock' = 0]_vars

C12_Witness ==
    /\ AcquiredAndReturned(1) /\ proc[1].res = "err" /\ proc[1].at = "gc_rm"
    /\ lock = 2 /\ proc[2].pc = "gc_scan"

\* C13: a gc that asks for the lock comes to an end, whether the lock is
\* free, is released in time or stays held; and a gc that returned because
\* it did not get the lock returned an error, having read no link and
\* uninstalled nothing.
LockRefused(p) == Returned(p) /\ proc[p].at = "gc_lock"

C13_GcLockBounded ==
    /\ [](\A p \in Procs :
             LockRefused(p) =>
                 /\ proc[p].res = "err"
                 /\ proc[p].todo = {} /\ proc[p].swept = {})
    /\ \A p \in Procs : (proc[p].pc = "gc_lock") ~> Done(p)

C13_Witness ==
    /\ LockRefused(1) /\ proc[1].res = "err"
    /\ lock = 2 /\ proc[2].pc = "gc_rm" /\ proc[2].todo /= {}

\* C14: a gc that was given no candidates and returns Ok has uninstalled
\* only pool entries that no link targets, and every pool entry that a link
\* targets is in the pool.
C14_GcAllKeepsReferenced ==
    \A p \in Procs :
        Ok(p) /\ proc[p].op = "gc" /\ proc[p].cand = None =>
            /\ \A id \in proc[p].swept : ~Targeted(id)
            /\ \A n \in LinkNames : link[n] /= NoId => pool[link[n]] /= Absent

\* C15: a call of gc with an empty set of candidates is one step that
\* returns Ok and leaves the links, the markers, the pool and the lock as
\* they are, whoever holds the lock.
CallsGcWith(p, candidates) ==
    /\ Quiet(p)
    /\ nops' = nops + 1
    /\ \A q \in Procs \ {p} : proc'[q] = proc[q]
    /\ proc'[p].op = "gc" /\ proc'[p].cand = candidates

C15_EmptyCandidatesNoOp ==
    [][\A p \in Procs :
          CallsGcWith(p, Some({})) =>
              /\ proc'[p].pc = "done" /\ proc'[p].res = "ok"
              /\ proc'[p].todo = {} /\ proc'[p].swept = {}
              /\ fs' = fs
              /\ lock' = lock]_vars

C15_Witness ==
    /\ Ok(1) /\ proc[1].op = "gc" /\ proc[1].cand = Some({})
    /\ proc[1].at = "gc_empty"
    /\ lock = 2 /\ proc[2].pc = "gc_rm" /\ proc[2].todo /= {}

\* C16: the name of every pool entry is the identity of the version and the
\* components that the entry holds on disk, and the entry that an Add has
\* installed holds the toolchain that its channel resolved to.
OnDisk(dir) == <<dir[1], dir[2]>>

C16_EntryNameIsOnDiskIdentity ==
    /\ \A id \in PoolIds : pool[id] /= Absent => Id(OnDisk(pool[id])) = id
    /\ Ok(1) /\ proc[1].op = "add" =>
          OnDisk(pool[proc[1].id]) = ResolveChannel(proc[1].src[1])

\* C17: the identities of two toolchains are equal exactly when their
\* versions are equal and their lists of components have the same
\* elements, whatever the order and the repetitions in the lists.
C17_IdentityOfVersionAndSet ==
    calc /= NoCalc /\ calc.op = "id" /\ calc.done =>
        (calc.id[1] = calc.id[2]
            <=> /\ calc.ver[1] = calc.ver[2]
                /\ Collect(calc.comps[1]) = Collect(calc.comps[2]))

C17_Witness ==
    /\ calc /= NoCalc /\ calc.op = "id" /\ calc.done
    /\ calc.id[1] = calc.id[2]
    /\ calc.comps[1] = << <<"rustc", TRUE>>, <<"cargo", TRUE>> >>
    /\ calc.comps[2] = << <<"cargo", TRUE>>, <<"rustc", TRUE>> >>

\* C18: the encoding of a hash has exactly 13 symbols, all of the
\* alphabet; it is the number in base 32, most significant symbol first,
\* with "0" before it up to the width, so that the hash can be read back
\* from it and two hashes never share an encoding; 1 gives "0000000000001"
\* and u64::MAX - 1 gives "fzzzzzzzzzzzy".
IndexOf(symbol) == CHOOSE i \in DOMAIN ALPHABET : ALPHABET[i] = symbol

\* The eight bytes of the number that the symbols are the base-32 digits of.
RECURSIVE BytesOf(_, _)
BytesOf(digits, n) ==
    IF n = 0
    THEN << >>
    ELSE LET qr == DivMod(digits, Len(ALPHABET), 256, 0)
         IN  BytesOf(qr[1], n - 1) \o <<qr[2]>>

Decode(symbols) ==
    BytesOf([i \in DOMAIN symbols |-> IndexOf(symbols[i]) - 1], 8)

C18_EncodeFixedWidthInjective ==
    calc /= NoCalc /\ calc.op = "encode" /\ calc.done =>
        /\ Len(calc.out) = 13
        /\ \A i \in DOMAIN calc.out :
              \E j \in DOMAIN ALPHABET : calc.out[i] = ALPHABET[j]
        /\ \A i, j \in DOMAIN ALPHABET : ALPHABET[i] = ALPHABET[j] => i = j
        /\ Decode(calc.out) = calc.hash
        /\ calc.hash = <<0, 0, 0, 0, 0, 0, 0, 1>> =>
              calc.out = <<"0", "0", "0", "0", "0", "0", "0", "0", "0", "0",
                           "0", "0", "1">>
        /\ calc.hash = <<255, 255, 255, 255, 255, 255, 255, 254>> =>
              calc.out = <<"f", "z", "z", "z", "z", "z", "z", "z", "z", "z",
                           "z", "z", "y">>

C18_Witness ==
    /\ calc /= NoCalc /\ calc.op = "encode" /\ calc.done
    /\ calc.hash = <<255, 255, 255, 255, 255, 255, 255, 254>>
    /\ calc.out = <<"f", "z", "z", "z", "z", "z", "z", "z", "z", "z", "z",
                    "z", "y">>

\* C19: an Add of a link that already targets the identity its source
\* resolves to (the state the same Add left) changes, at no step, a link or
\* a directory of the pool; when it returns Ok its marker is gone, the link
\* targets that identity, the entry is in the pool, the installer was not
\* run and its gc has uninstalled nothing.
Repeats(p) ==
    proc[p].op = "add" /\ proc[p].pre /= NoId /\ proc[p].pre = proc[p].id

C19_AddTwiceIsAddOnce ==
    /\ [](\A p \in Procs :
             Ok(p) /\ Repeats(p) =>
                 /\ link[proc[p].link] = proc[p].id
                 /\ marker[proc[p].link] = NoId
                 /\ IsFull(pool[proc[p].id])
                 /\ ~proc[p].installed
                 /\ proc[p].swept = {})
    /\ [][\A p \in Procs :
             Repeats(p) /\ ~Quiet(p) =>
                 link' = link /\ pool' = pool /\ srcdir' = srcdir
                              /\ tmpdir' = tmpdir]_vars

C19_Witness ==
    /\ Ok(1) /\ Repeats(1) /\ proc[1].at = "gc_rm"
    /\ link[proc[1].link] = proc[1].id
    /\ IsFull(pool[proc[1].id])

\* The steps that materialize the pool entry.
Materialize ==
    {"add_install", "add_installing", "add_rename", "comp_copy",
     "comp_copying", "comp_hack", "comp_edit", "comp_unhack", "comp_rename"}

FailedMaterializing(p) ==
    Returned(p) /\ proc[p].res = "err" /\ proc[p].at \in Materialize

StagedMarked ==
    \A p \in Procs :
        /\ proc[p].pc \in Staged => marker[proc[p].link] = proc[p].id
        /\ FailedMaterializing(p) =>
              /\ marker[proc[p].link] = proc[p].id
              /\ link[proc[p].link] = proc[p].pre

Unmarked == {"add_resolve", "add_mark", "comp_empty", "comp_read", "comp_mark"}

\* C21: when Add or a component edit that created its in-flight marker has
\* returned (Ok or an error), no in-flight marker of its link is in the
\* links directory.
C21_NoMarkerAfterReturn ==
    \A p \in Procs :
        Returned(p) /\ proc[p].op \in {"add", "comp"}
                    /\ proc[p].at \notin Unmarked =>
            marker[proc[p].link] = NoId

\* C22: a transaction that cannot create its in-flight marker returns an
\* error, having changed nothing: every step of it up to the return leaves
\* the links directory, the pool directory and the lock as they are, no
\* installer has run and gc has not been called.
MarkRefused(p) == Returned(p) /\ proc[p].at \in {"add_mark", "comp_mark"}

NothingDone ==
    \A p \in Procs :
        MarkRefused(p) =>
            /\ proc[p].res = "err"
            /\ link[proc[p].link] = proc[p].pre
            /\ ~proc[p].installed
            /\ proc[p].cand = None /\ proc[p].swept = {}

C22_MarkerFailureChangesNothing ==
    /\ NothingDone
    /\ [][/\ NothingDone'
          /\ \A p \in Procs :
                proc'[p] /= proc[p]
                    /\ (proc'[p].pc = "comp_mark" \/ MarkRefused(p)') =>
                    fs' = fs /\ lock' = lock]_vars

C22_Witness ==
    /\ MarkRefused(1) /\ proc[1].at = "comp_mark"
    /\ marker[proc[1].link] /= NoId
    /\ IsFull(pool[link[proc[1].link]])

\* C23: of two transactions on one link that run at the same time, neither
\* is refused: none has returned an error from the creation of its
\* in-flight marker while the other, between its marker and its commit, is
\* still running.
C23_SameLinkBothCommit ==
    \A p, q \in Procs :
        p /= q /\ proc[p].pc \in Staged /\ proc[q].link = proc[p].link =>
            ~MarkRefused(q)

\* C24: of two transactions on different links that run at the same time,
\* neither makes the other fail: no component edit has returned an error
\* from the creation of its clone directory or of its temporary link
\* stable-<host> while an edit of another link holds that path.
Cloning == {"comp_copying", "comp_hack", "comp_edit", "comp_unhack", "comp_rename"}

C24_OtherLinkNeverFails ==
    \A p, q \in Procs :
        /\ p /= q
        /\ proc[q].op = "comp" /\ proc[q].link /= proc[p].link
        /\ Returned(q)
        => /\ ~(/\ proc[q].at = "comp_copy"
                /\ proc[p].pc \in Cloning /\ proc[p].id = proc[q].id)
           /\ ~(/\ proc[q].at = "comp_hack"
                /\ proc[p].pc \in {"comp_edit", "comp_unhack"})

\* C25 as stated: gc runs the uninstall only for a toolchain whose
\* directory is in the pool.
C25_AbsentCandidateSkipped ==
    [][\A p \in Procs :
          \A tc \in proc'[p].swept \ proc[p].swept : pool[tc] /= Absent]_vars

\* C25 amended: gc does not look for the directory of a candidate: every
\* candidate that no entry of the links directory targets is uninstalled,
\* its directory in the pool or not; an uninstall of one whose directory is
\* absent changes nothing, and gc returns Ok when every uninstall has
\* succeeded.
SweptUnreferenced ==
    \A p \in Procs :
        proc[p].op = "gc" /\ proc[p].cand /= None =>
            /\ proc[p].pc = "gc_rm" =>
                  proc[p].todo \cup proc[p].swept = proc[p].cand[1] \ Referenced
            /\ Ok(p) /\ proc[p].at = "gc_rm" =>
                  /\ proc[p].swept = proc[p].cand[1] \ Referenced
                  /\ \A tc \in proc[p].swept : pool[tc] = Absent

C25_AbsentCandidateUninstalled ==
    /\ SweptUnreferenced
    /\ [][/\ SweptUnreferenced'
          /\ \A p \in Procs :
                \A tc \in proc'[p].swept \ proc[p].swept :
                    pool[tc] = Absent => pool' = pool]_vars

C25_Witness ==
    LET gone == Id(ResolveChannel("1.92.0"))
    IN  /\ Ok(1) /\ proc[1].at = "gc_rm" /\ proc[1].swept = {gone}
        /\ Ok(2) /\ proc[2].at = "gc_rm" /\ proc[2].swept = {gone}
        /\ pool[gone] = Absent

\* C26 as stated: gc returns the error of an uninstall only when it has
\* tried every toolchain it had to uninstall: besides the one whose
\* uninstall failed, none is left.
UninstallFailed(p) ==
    Returned(p) /\ proc[p].res = "err" /\ proc[p].at = "gc_rm"

C26_SweepIsBestEffort ==
    \A p \in Procs : UninstallFailed(p) => Cardinality(proc[p].todo) <= 1

\* C26 amended: the first uninstall that fails ends the sweep: gc returns
\* its error in that step, and the toolchains that were still to uninstall,
\* the failed one among them, are not uninstalled by this call; the loop
\* goes on only after an uninstall that succeeded.  This is so with
\* candidates and without.
SweepAborted ==
    \A p \in Procs :
        UninstallFailed(p) =>
            /\ proc[p].todo /= {}
            /\ proc[p].todo \cap proc[p].swept = {}
            /\ proc[p].todo \cup proc[p].swept = Doomed(proc[p].cand, Referenced)

C26_UninstallFailureAbortsSweep ==
    /\ SweepAborted
    /\ [][/\ SweepAborted'
          /\ \A p \in Procs :
                /\ proc[p].pc = "gc_rm" /\ UninstallFailed(p)' =>
                      /\ pool' = pool
                      /\ proc'[p].todo = proc[p].todo
                      /\ proc'[p].swept = proc[p].swept
                /\ proc[p].pc = "gc_rm" /\ proc'[p].pc = "gc_rm"
                                        /\ proc'[p] /= proc[p] =>
                      \E tc \in proc[p].todo :
                          /\ proc'[p].todo = proc[p].todo \ {tc}
                          /\ proc'[p].swept = proc[p].swept \cup {tc}
                          /\ pool'[tc] = Absent]_vars

C26_Witness ==
    /\ UninstallFailed(1) /\ proc[1].cand = None
    /\ UninstallFailed(2) /\ proc[2].cand /= None
    /\ \A p \in Procs :
          /\ Cardinality(proc[p].todo) = 2
          /\ \A tc \in proc[p].todo : IsFull(pool[tc])

\* C27: an Rm that returned because the lock of gc was held can be run
\* again: the same Rm, started by the same caller when the lock is free,
\* does not return an error.
C27_RetryAfterLockRefusal ==
    [][\A p \in Procs :
          /\ LockRefused(p) /\ proc[p].op = "rm" /\ lock = 0
          /\ proc'[p] /= proc[p]
          /\ proc'[p].op = "rm" /\ proc'[p].link = proc[p].link
          => ~(Done(p)' /\ proc'[p].res = "err")]_vars

CandidateIsTarget ==
    \A p \in Procs :
        Ok(p) /\ proc[p].op = "add" =>
            /\ proc[p].und = proc[p].pre
            /\ proc[p].cand = IF proc[p].pre = NoId THEN None ELSE Some({proc[p].pre})

SharedBy(p, n) ==
    /\ proc[p].op = "comp" /\ proc[p].und /= NoId
    /\ n /= proc[p].link /\ link[n] = proc[p].und

SharedStays ==
    \A p \in Procs, n \in LinkNames :
        Ok(p) /\ SharedBy(p, n) =>
            IsFull(pool[proc[p].und]) /\ proc[p].und \notin proc[p].swept

C29_EditKeepsSharedEntry ==
    /\ SharedStays
    /\ [][/\ SharedStays'
          /\ \A p \in Procs, n \in LinkNames :
                ~Quiet(p) /\ SharedBy(p, n) =>
                    /\ pool'[proc[p].und] = pool[proc[p].und]
                    /\ link'[n] = link[n]]_vars

C29_Witness ==
    \E n \in LinkNames :
        /\ Ok(1) /\ SharedBy(1, n)
        /\ proc[1].id /= proc[1].und /\ proc[1].at = "gc_rm"
        /\ link[proc[1].link] = proc[1].id
        /\ pool[proc[1].und] = Full(ResolveChannel("1.81.0"))

\* C30: when a component edit is about to create its temporary link
\* stable-<host>, the pool directory has no entry of that name.
C30_HackNameIsFree ==
    \A p \in Procs : proc[p].pc = "comp_hack" => hack = NoId

\* C31: between the subcommands, run one at a time with no failure of
\* rustup, of the scan or of the lock, no garbage is in the pool directory:
\* every toolchain directory is the target of a link, and there is no
\* <id>.tmp directory, no directory under a source name and no link
\* stable-<host>.
NoGarbage ==
    /\ \A i \in PoolIds : pool[i] /= Absent => Targeted(i)
    /\ \A i \in PoolIds : tmpdir[i] = Absent
    /\ \A n \in SrcNames : srcdir[n] = Absent
    /\ hack = NoId

C31_NoGarbageAfterSuccess == Quiet(1) => NoGarbage

C31_Witness ==
    /\ Ok(1) /\ proc[1].op = "comp" /\ proc[1].swept = {proc[1].und}
    /\ proc[1].und /= NoId
    /\ IsFull(pool[proc[1].id]) /\ link[proc[1].link] = proc[1].id
    /\ NoGarbage

\* C32: what gc, after its scan, is about to uninstall and has uninstalled
\* is the target of no in-flight marker of the links directory.
C32_MarkedEntryNotUninstalled ==
    \A p \in Procs :
        proc[p].pc = "gc_rm" =>
            \A tc \in proc[p].todo \cup proc[p].swept : ~Marked(tc)

\* C33: while an in-flight marker of a link is left behind, an Add or a
\* component edit of that link does not get past the creation of its own
\* marker: it ends before it (nothing to resolve, to read or to do) or
\* returns the error of the creation, and no step of it changes a link, a
\* pool entry or the marker.
Begins(p) == nops' = nops + 1 /\ proc'[p] /= proc[p]

C33_LeftoverMarkerBlocksLink ==
    [][\A p \in Procs :
          /\ Begins(p) /\ proc'[p].op = "add" /\ marker[proc'[p].link] /= NoId =>
                /\ fs' = fs /\ lock' = lock
                /\ Done(p)' /\ proc'[p].res = "err"
                /\ proc'[p].at \in {"add_resolve", "add_mark"}
                /\ proc'[p].id /= NoId => proc'[p].at = "add_mark"
          /\ Begins(p) /\ proc'[p].op = "comp" /\ marker[proc'[p].link] /= NoId =>
                /\ fs' = fs /\ lock' = lock
                /\ \/ proc'[p].pc = "comp_mark"
                   \/ Done(p)' /\ proc'[p].at \in {"comp_empty", "comp_read"}
          /\ proc[p].pc = "comp_mark" /\ marker[proc[p].link] /= NoId
                /\ proc'[p] /= proc[p] /\ proc'[p].res /= "crash" =>
                /\ fs' = fs /\ lock' = lock
                /\ Done(p)' /\ proc'[p].res = "err"
                /\ proc'[p].at = "comp_mark"]_vars

C33_Witness ==
    /\ MarkRefused(1) /\ proc[1].at = "add_mark"
    /\ link[proc[1].link] /= NoId /\ link[proc[1].link] = proc[1].pre
    /\ marker[proc[1].link] /= link[proc[1].link]
    /\ pool[marker[proc[1].link]] = Absent

\* C34: a link, and an in-flight marker, changes only in a step of a
\* subcommand on that link name: Add, Rm and the component edits create,
\* remove and repoint no other link.
C34_OtherLinksUnchanged ==
    [][\A n \in LinkNames :
          link'[n] /= link[n] \/ marker'[n] /= marker[n] =>
              \E p \in Procs :
                  /\ proc'[p] /= proc[p]
                  /\ proc'[p].link = n
                  /\ proc'[p].op \in {"add", "rm", "comp"}]_vars

C34_Witness ==
    \E n \in LinkNames :
        /\ Ok(1) /\ proc[1].op = "rm" /\ proc[1].link /= n
        /\ link[proc[1].link] = NoId
        /\ link[n] = proc[1].und /\ IsFull(pool[link[n]])

\* C35: a component edit that would change nothing of what its link's
\* pool entry has (comp-add of components it has, comp-rm of components it
\* lacks) computes the identity of that entry as its new identity.
C35_NoChangeKeepsIdentity ==
    \A p \in Procs :
        /\ proc[p].pc = "comp_mark"
        /\ pool[proc[p].und] /= Absent
        /\ Edited(pool[proc[p].und], proc[p].args, proc[p].add) = pool[proc[p].und]
        => proc[p].id = proc[p].und

====
